---- MODULE Spec2Model ----
(***************************************************************************)
(* The session engine of the trivia tug-of-war game: the Durable Object    *)
(* SessionDurableObject of apps/api/src/durable-objects/session-do.ts.     *)
(*                                                                         *)
(* The object is single-threaded JavaScript.  A handler runs without       *)
(* interruption up to an `await` of a relational-store (D1) call; while it *)
(* is suspended there the runtime delivers other events (messages, HTTP    *)
(* calls, timer callbacks) to the same object.  A State Store call         *)
(* (state.storage.get/put) does not admit other events, so it is part of   *)
(* the step that issues it.  Every handler is therefore a chain of steps,  *)
(* one per D1 await, and `handlers` holds the suspended continuations.     *)
(*                                                                         *)
(* Rope positions and deltas are kept in twentieths of a position unit, so *)
(* that points/10 and the x1.5 streak multiplier stay integers.  Time is   *)
(* counted in ticks.                                                       *)
(***************************************************************************)
EXTENDS Integers, Sequences, FiniteSets, TLC

\* ------------------------------------------------------------ bounds
MaxCommands == 3
MaxInflight == 2
MaxTime == 3
MaxRejected == 1
NumQuestions == 2

\* ------------------------------------------------------------ constants
TUG_START_POSITION == 50
TUG_MIN_POSITION == 0
TUG_MAX_POSITION == 100
PosScale == 2 * 10
WS_RATE_LIMIT_PER_SECOND == 10
\* The 1000 ms of the rate limiter's window, in ticks.
RateWindowTicks == 2

Teachers == {"T"}
Students == {"s1", "s2", "s3"}
Users == Teachers \cup Students
Teams == <<"L", "R">>
Slots == 1..MaxInflight

\* Holders of valid tokens that were not issued for this session: a teacher of
\* another tenant and a student of another session.
Foreign == {"T2", "x1"}
Tokens == Users \cup Foreign

\* The user id of a connection that was opened and has not said HELLO: it is
\* registered with userId '' and role student, and such a connection can be opened
\* at any time.
Anonymous == ""

\* The claims of the token a user presents in HELLO.
RoleOf(u) == IF u \in Teachers \cup {"T2"} THEN "teacher" ELSE "student"
TenantOf(u) == IF u = "T2" THEN "other" ELSE "own"
SessionOf(u) == IF u = "x1" THEN "other" ELSE "this"
TeamOf(u) == IF u \in {"s1", "s3"} THEN "L" ELSE IF u = "s2" THEN "R" ELSE ""

\* The tenant's question rows: option "a" is the correct one, "b" is wrong.
AnswerIds == {"a", "b"}
QuestionRow == [time_limit_ms |-> 3, points |-> 20, correct |-> "a"]

\* The session's ruleset row, and the engine without one.
Rules ==
  [loaded |-> TRUE, timeLimitMsPerQuestion |-> 2, pointsPerCorrect |-> 10,
   pointsForSpeed |-> TRUE, streakBonus |-> TRUE, streakThreshold |-> 2,
   streakMultiplierX2 |-> 3]
NoRuleset ==
  [loaded |-> FALSE, timeLimitMsPerQuestion |-> 0, pointsPerCorrect |-> 0,
   pointsForSpeed |-> FALSE, streakBonus |-> FALSE, streakThreshold |-> 0,
   streakMultiplierX2 |-> 0]

ManualDeltas == {-100, 60}

VARIABLES
  storedState,          \* this.storedState (NoState = null)
  storage,              \* the State Store blob under key 'state'
  ruleset,              \* this.ruleset
  answersThisQuestion,  \* this.answersThisQuestion, in insertion order
  questionTimer,        \* this.questionTimer: the handle last stored (0 = null)
  timers,               \* the pending setTimeout callbacks
  clients,              \* this.clients: the users with an authenticated connection
  question_instances,   \* rows of table question_instances
  attempts,             \* rows of table attempts
  strength_events,      \* rows of table strength_events
  sessions,             \* the session's row of table sessions
  handlers,             \* the handlers suspended at a D1 await
  now,                  \* Date.now()
  budget,               \* commands still to arrive
  sent,                 \* the events broadcast so far, in order
  reply,                \* the targeted answer to the most recent command
  students,             \* column connection_status of table students
  limiter,              \* messageCount and messageWindowStart of each connection
  dispatched            \* per connection and tick, the PINGs passed on to the switch

vars ==
  <<storedState, storage, ruleset, answersThisQuestion, questionTimer, timers,
    clients, question_instances, attempts, strength_events, sessions, handlers,
    now, budget, sent, reply, students, limiter, dispatched>>

\* ------------------------------------------------------------ values
\* The rate-limit fields of a connection that was opened at time 0 and has sent its
\* HELLO.  The commands followed below arrive under the quota, so the fields are
\* followed for PING traffic only.
NewConnection == [messageCount |-> 1, messageWindowStart |-> 0]
NoQuestion == [id |-> 0, index |-> -1, startedAt |-> 0, timeLimitMs |-> 0, points |-> 0]
ZeroStreaks == [t \in {"L", "R"} |-> [current |-> 0, max |-> 0]]
NoState ==
  [phase |-> "none", position |-> 0, numQuestionIds |-> 0, currentQuestionIndex |-> -1,
   currentQuestion |-> NoQuestion, teams |-> <<>>, streaks |-> ZeroStreaks,
   snapshotVersion |-> 0, lastEventId |-> 0]
Idle ==
  [kind |-> "idle", pc |-> "idle", stage |-> "", user |-> "", team |-> "", q |-> 0,
   choice |-> "", correct |-> FALSE, points |-> 0, limit |-> 0, delta |-> 0,
   newPos |-> 0, at |-> 0, idx |-> 0, seq |-> 0, ord |-> 0, rs |-> FALSE, target |-> ""]

\* A message: correctAnswerId is the correct answer id of a question that the payload
\* carries, "" when it carries none.
NoReply == [to |-> "", type |-> "", code |-> "", correctAnswerId |-> ""]

ErrorTo(c, code) == [to |-> c, type |-> "ERROR", code |-> code, correctAnswerId |-> ""]
HttpError(msg) == [to |-> "http", type |-> "400", code |-> msg, correctAnswerId |-> ""]

Min(a, b) == IF a < b THEN a ELSE b
Max(a, b) == IF a > b THEN a ELSE b

\* Math.round of a position kept in twentieths (halves round up).
Round(p) == (2 * p + PosScale) \div (2 * PosScale)

ClampUnbounded(p) == Max(TUG_MIN_POSITION * PosScale, p)
\* Math.max(TUG_MIN_POSITION, Math.min(TUG_MAX_POSITION, p))
Clamp(p) == Max(TUG_MIN_POSITION * PosScale, Min(TUG_MAX_POSITION * PosScale, p))

\* The phase of the session: the engine's phase, or the persisted one while the
\* engine is unloaded; a session that was never initialised is in its lobby.
Phase ==
  IF storedState # NoState THEN storedState.phase
  ELSE IF storage # NoState THEN storage.phase ELSE "lobby"

Free == {h \in Slots : handlers[h].kind = "idle"}
NewSlot == CHOOSE h \in Free : \A g \in Free : h <= g
InFlight == Slots \ Free
Start(h) == [handlers EXCEPT ![NewSlot] = h]
Done(h) == [handlers EXCEPT ![h] = Idle]
Goto(h, rec) == [handlers EXCEPT ![h] = rec]

\* The ordinal of the next movement of the rope: every movement so far has written
\* its strength_events row or still waits to write it.  It stands for the fresh id
\* the movement stores in lastEventId.
NextMove ==
  Len(strength_events)
    + Cardinality({h \in Slots : handlers[h].pc \in {"strength_insert", "manual_insert"}}) + 1

Answered(u) == \E i \in 1..Len(answersThisQuestion) : answersThisQuestion[i].studentId = u

Init ==
  /\ storedState = NoState
  /\ storage = NoState
  /\ ruleset = NoRuleset
  /\ answersThisQuestion = <<>>
  /\ questionTimer = 0
  /\ timers = {}
  /\ clients = {}
  /\ question_instances = <<>>
  /\ attempts = <<>>
  /\ strength_events = <<>>
  /\ sessions = [status |-> "lobby", final_position |-> -1]
  /\ handlers = [h \in Slots |-> Idle]
  /\ now = 0
  /\ budget = MaxCommands
  /\ sent = <<>>
  /\ reply = NoReply
  /\ students = [s \in Students |-> "connected"]
  /\ limiter = [u \in Users |-> NewConnection]
  /\ dispatched = [u \in Users |-> [t \in 0..MaxTime |-> 0]]

\* loadTeams: the roster read from D1 replaces storedState.teams.
TeamsLoaded == [storedState EXCEPT !.teams = Teams]

\* ------------------------------------------------------------ /init
\* POST /init, sent by the start route while the session row is lobby or ready.
HandleInit(rs) ==
  /\ budget > 0 /\ Free # {}
  /\ sessions.status \in {"lobby", "ready"}
  /\ sessions' = [sessions EXCEPT !.status = "ready"]
  /\ storedState' =
       [phase |-> "ready", position |-> TUG_START_POSITION * PosScale,
        numQuestionIds |-> NumQuestions, currentQuestionIndex |-> -1,
        currentQuestion |-> NoQuestion, teams |-> <<>>, streaks |-> ZeroStreaks,
        snapshotVersion |-> 1, lastEventId |-> 0]
  /\ handlers' = Start([Idle EXCEPT !.kind = "init", !.pc = "init_teams", !.rs = rs])
  /\ budget' = budget - 1
  /\ reply' = NoReply
  /\ UNCHANGED <<limiter, dispatched, students, storage, ruleset, answersThisQuestion,
                 questionTimer, timers, clients, question_instances, attempts,
                 strength_events, now, sent>>

\* handleInit resumes after loadTeams.
InitTeamsLoaded(h) ==
  /\ handlers[h].kind = "init" /\ handlers[h].pc = "init_teams"
  /\ storedState' = TeamsLoaded
  /\ IF handlers[h].rs
       THEN /\ handlers' = Goto(h, [handlers[h] EXCEPT !.pc = "init_ruleset"])
            /\ UNCHANGED storage
       ELSE /\ handlers' = Done(h)
            /\ storage' = storedState'
  /\ UNCHANGED <<limiter, dispatched, students, ruleset, answersThisQuestion, questionTimer,
                 timers, clients, question_instances, attempts, strength_events, sessions,
                 now, budget, sent, reply>>

\* handleInit resumes after reading the ruleset row, and saves the state.
InitRulesetLoaded(h) ==
  /\ handlers[h].kind = "init" /\ handlers[h].pc = "init_ruleset"
  /\ ruleset' = Rules
  /\ storage' = storedState
  /\ handlers' = Done(h)
  /\ UNCHANGED <<limiter, dispatched, students, storedState, answersThisQuestion,
                 questionTimer, timers, clients, question_instances, attempts,
                 strength_events, sessions, now, budget, sent, reply>>

\* ------------------------------------------------------------ connections
\* loadState: the stored blob becomes this.storedState, then loadTeams is awaited.
CanLoad == storedState = NoState /\ storage # NoState

\* buildGameState: the current question, its correct answer included, is part of
\* the projection only when includeAnswers is set.
BuildGameState(S, includeAnswers) ==
  [phase |-> S.phase, position |-> S.position,
   currentQuestion |-> IF includeAnswers THEN S.currentQuestion.id ELSE 0,
   correctAnswerId |-> IF includeAnswers /\ S.currentQuestion # NoQuestion
                         THEN QuestionRow.correct ELSE ""]

\* sendStateSnapshot: the STATE_SNAPSHOT that follows WELCOME on the connection of
\* user u (WELCOME itself carries phase, position and teams only).
StateSnapshot(u, S) ==
  [to |-> u, type |-> "STATE_SNAPSHOT", code |-> "",
   snapshotVersion |-> S.snapshotVersion,
   currentQuestion |-> BuildGameState(S, RoleOf(u) = "teacher").currentQuestion,
   correctAnswerId |-> BuildGameState(S, RoleOf(u) = "teacher").correctAnswerId]

\* handleHello from the token check on, the engine's state being S: the connection
\* is authenticated, a student's status is written to D1 before WELCOME is sent.
\* h = 0 for a new handler.
HelloBody(h, u, S) ==
  IF RoleOf(u) = "student" /\ SessionOf(u) # "this"
    THEN /\ reply' = ErrorTo(u, "NOT_AUTHORIZED")
         /\ handlers' = IF h = 0 THEN handlers ELSE Done(h)
         /\ UNCHANGED clients
    ELSE /\ clients' = clients \cup {u}
         /\ IF RoleOf(u) = "student"
              THEN /\ handlers' =
                        LET r == [Idle EXCEPT !.kind = "hello", !.pc = "status_update",
                                              !.user = u]
                        IN IF h = 0 THEN Start(r) ELSE Goto(h, r)
                   /\ reply' = NoReply
              ELSE /\ handlers' = IF h = 0 THEN handlers ELSE Done(h)
                   /\ reply' = StateSnapshot(u, S)

\* A connection is opened and sends HELLO with the token of user u.
Hello(u) ==
  /\ IF storedState = NoState /\ storage = NoState
       THEN /\ reply' = ErrorTo(u, "SESSION_NOT_FOUND")
            /\ UNCHANGED <<storedState, handlers, clients>>
       ELSE IF CanLoad
         THEN /\ Free # {}
              /\ storedState' = storage
              /\ handlers' = Start([Idle EXCEPT !.kind = "hello", !.pc = "load_teams",
                                                !.user = u])
              /\ reply' = NoReply
              /\ UNCHANGED clients
         ELSE /\ RoleOf(u) = "student" => Free # {}
              /\ HelloBody(0, u, storedState)
              /\ UNCHANGED storedState
  /\ UNCHANGED <<limiter, dispatched, students, storage, ruleset, answersThisQuestion,
                 questionTimer, timers, question_instances, attempts, strength_events,
                 sessions, now, budget, sent>>

\* handleHello resumes after loadState.
HelloLoaded(h) ==
  /\ handlers[h].kind = "hello" /\ handlers[h].pc = "load_teams"
  /\ storedState' = TeamsLoaded
  /\ HelloBody(h, handlers[h].user, TeamsLoaded)
  /\ UNCHANGED <<limiter, dispatched, students, storage, ruleset, answersThisQuestion,
                 questionTimer, timers, question_instances, attempts, strength_events,
                 sessions, now, budget, sent>>

\* handleHello resumes after updateStudentConnectionStatus: WELCOME, STATE_SNAPSHOT.
HelloConnected(h) ==
  /\ handlers[h].kind = "hello" /\ handlers[h].pc = "status_update"
  /\ students' = [students EXCEPT ![handlers[h].user] = "connected"]
  /\ reply' = StateSnapshot(handlers[h].user, storedState)
  /\ handlers' = Done(h)
  /\ UNCHANGED <<limiter, dispatched, storedState, storage, ruleset, answersThisQuestion,
                 questionTimer, timers, clients, question_instances, attempts,
                 strength_events, sessions, now, budget, sent>>

\* GET /state for user u, forwarded by the state route with the user's role.
GetState(u) ==
  /\ IF storedState = NoState /\ storage = NoState
       THEN /\ reply' = [to |-> u, type |-> "404", code |-> "Not initialized",
                         correctAnswerId |-> ""]
            /\ UNCHANGED <<storedState, handlers>>
       ELSE IF CanLoad
         THEN /\ Free # {}
              /\ storedState' = storage
              /\ handlers' = Start([Idle EXCEPT !.kind = "state", !.pc = "load_teams",
                                                !.user = u])
              /\ reply' = NoReply
         ELSE /\ reply' = [to |-> u, type |-> "200", code |-> "state",
                           correctAnswerId |->
                             BuildGameState(storedState, RoleOf(u) = "teacher").correctAnswerId]
              /\ UNCHANGED <<storedState, handlers>>
  /\ UNCHANGED <<limiter, dispatched, students, storage, ruleset, answersThisQuestion,
                 questionTimer, timers, clients, question_instances, attempts,
                 strength_events, sessions, now, budget, sent>>

\* handleGetState resumes after loadState.
StateLoaded(h) ==
  /\ handlers[h].kind = "state" /\ handlers[h].pc = "load_teams"
  /\ storedState' = TeamsLoaded
  /\ reply' = [to |-> handlers[h].user, type |-> "200", code |-> "state",
               correctAnswerId |->
                 BuildGameState(TeamsLoaded, RoleOf(handlers[h].user) = "teacher").correctAnswerId]
  /\ handlers' = Done(h)
  /\ UNCHANGED <<limiter, dispatched, students, storage, ruleset, answersThisQuestion,
                 questionTimer, timers, clients, question_instances, attempts,
                 strength_events, sessions, now, budget, sent>>

\* ------------------------------------------------------------ rate limiting
\* webSocketMessage up to its switch, for a message that arrives on the connection
\* of user c and is answered without touching the session: PING.  The window is
\* restarted when it is older than 1000 ms, the message is counted, and a message
\* over the quota is answered with ERROR{RATE_LIMITED} and dropped.
Pong(c) == [to |-> c, type |-> "PONG", code |-> "", correctAnswerId |-> ""]

Ping(c) ==
  /\ c \in clients
  /\ LET expired == now - limiter[c].messageWindowStart > RateWindowTicks
         count == (IF expired THEN 0 ELSE limiter[c].messageCount) + 1
     IN /\ count <= WS_RATE_LIMIT_PER_SECOND + MaxRejected
        /\ limiter' = [limiter EXCEPT ![c] =
              [messageCount |-> count,
               messageWindowStart |-> IF expired THEN now ELSE @.messageWindowStart]]
        /\ IF count > WS_RATE_LIMIT_PER_SECOND
             THEN /\ reply' = ErrorTo(c, "RATE_LIMITED")
                  /\ UNCHANGED dispatched
             ELSE /\ reply' = Pong(c)
                  /\ dispatched' = [dispatched EXCEPT ![c][now] = @ + 1]
  /\ UNCHANGED <<storedState, storage, ruleset, answersThisQuestion, questionTimer, timers,
                 clients, question_instances, attempts, strength_events, sessions,
                 handlers, now, budget, sent, students>>

\* ------------------------------------------------------------ kicking
\* PLAYER_KICKED, sent to the kicked student's connection before it is closed.
PlayerKicked(s) == [to |-> s, type |-> "PLAYER_KICKED", code |-> "", correctAnswerId |-> ""]

\* TEACHER_KICK_PLAYER on the connection of user c, up to UPDATE students.
TeacherKick(c, s) ==
  /\ c \in clients
  /\ IF RoleOf(c) = "teacher"
       THEN /\ budget > 0 /\ Free # {}
            /\ handlers' = Start([Idle EXCEPT !.kind = "kick", !.pc = "kick_update",
                                              !.user = c, !.target = s])
            /\ budget' = budget - 1
       ELSE UNCHANGED <<handlers, budget>>
  /\ reply' = NoReply
  /\ UNCHANGED <<limiter, dispatched, students, storedState, storage, ruleset,
                 answersThisQuestion, questionTimer, timers, clients, question_instances,
                 attempts, strength_events, sessions, now, sent>>

\* POST /kick, sent by the kick route after it has marked the student kicked.
HandleKick(s) ==
  /\ budget > 0 /\ Free # {}
  /\ students' = [students EXCEPT ![s] = "kicked"]
  /\ handlers' = Start([Idle EXCEPT !.kind = "kick", !.pc = "kick_update", !.user = "http",
                                    !.target = s])
  /\ budget' = budget - 1
  /\ reply' = NoReply
  /\ UNCHANGED <<limiter, dispatched, storedState, storage, ruleset, answersThisQuestion,
                 questionTimer, timers, clients, question_instances, attempts,
                 strength_events, sessions, now, sent>>

\* kickStudent resumes after UPDATE students: PLAYER_KICKED, close, clients.delete.
KickUpdated(h) ==
  /\ handlers[h].kind = "kick" /\ handlers[h].pc = "kick_update"
  /\ LET s == handlers[h].target IN
     /\ students' = [students EXCEPT ![s] = "kicked"]
     /\ IF s \in clients
          THEN /\ reply' = PlayerKicked(s)
               /\ clients' = clients \ {s}
          ELSE UNCHANGED <<reply, clients>>
  /\ handlers' = Goto(h, [handlers[h] EXCEPT !.pc = "kick_teams"])
  /\ UNCHANGED <<limiter, dispatched, storedState, storage, ruleset, answersThisQuestion,
                 questionTimer, timers, question_instances, attempts, strength_events,
                 sessions, now, budget, sent>>

\* kickStudent resumes after loadTeams and returns to its caller.
KickTeamsLoaded(h) ==
  /\ handlers[h].kind = "kick" /\ handlers[h].pc = "kick_teams"
  /\ storedState' = IF storedState = NoState THEN NoState ELSE TeamsLoaded
  /\ handlers' = Done(h)
  /\ UNCHANGED <<limiter, dispatched, students, storage, ruleset, answersThisQuestion,
                 questionTimer, timers, clients, question_instances, attempts,
                 strength_events, sessions, now, budget, sent, reply>>

\* The engine is evicted from memory while idle: every field of the object is lost.
Unload ==
  /\ budget > 0 /\ InFlight = {} /\ storedState # NoState
  /\ storedState' = NoState
  /\ ruleset' = NoRuleset
  /\ answersThisQuestion' = <<>>
  /\ questionTimer' = 0
  /\ timers' = {}
  /\ clients' = {}
  /\ budget' = budget - 1
  /\ reply' = NoReply
  /\ UNCHANGED <<limiter, dispatched, students, storage, question_instances, attempts,
                 strength_events, sessions, handlers, now, sent>>

\* ------------------------------------------------------------ question lifecycle
\* endCurrentQuestion up to its await: clearTimeout(this.questionTimer).
ClearTimer ==
  /\ timers' = {t \in timers : t.q # questionTimer}
  /\ questionTimer' = 0

EndEntry(r, S, stage) ==
  [r EXCEPT !.pc = "end_update", !.stage = stage, !.q = S.currentQuestion.id, !.at = now]

\* endGame up to its first await.
EndGameEntry(r, S) ==
  IF S.currentQuestion # NoQuestion
    THEN EndEntry(r, S, "game")
    ELSE [r EXCEPT !.pc = "session_update", !.stage = "game", !.newPos = Round(S.position)]

\* handleNextQuestion after the current question was ended.
AfterEndNext(r, S) ==
  IF S.currentQuestionIndex + 1 >= S.numQuestionIds
    THEN EndGameEntry(r, S)
    ELSE [r EXCEPT !.pc = "question_select", !.idx = S.currentQuestionIndex + 1]

\* The handler record goes to its next await; the timer is cleared when that await
\* is inside endCurrentQuestion.
Suspend(h, rec) ==
  /\ handlers' = IF h = 0 THEN Start(rec) ELSE Goto(h, rec)
  /\ IF rec.pc = "end_update" THEN ClearTimer ELSE UNCHANGED <<questionTimer, timers>>

NextQuestion(c) ==
  /\ c \in clients
  /\ IF RoleOf(c) # "teacher"
       THEN /\ reply' = ErrorTo(c, "NOT_AUTHORIZED")
            /\ UNCHANGED <<handlers, questionTimer, timers, budget>>
       ELSE /\ budget > 0 /\ Free # {}
            /\ LET r == [Idle EXCEPT !.kind = "next", !.user = c] IN
               Suspend(0, IF storedState.phase = "active_question"
                               /\ storedState.currentQuestion # NoQuestion
                            THEN EndEntry(r, storedState, "next")
                            ELSE AfterEndNext(r, storedState))
            /\ budget' = budget - 1
            /\ reply' = NoReply
  /\ UNCHANGED <<limiter, dispatched, students, storedState, storage, ruleset,
                 answersThisQuestion, clients, question_instances, attempts,
                 strength_events, sessions, now, sent>>

TeacherEndGame(c) ==
  /\ c \in clients
  /\ IF RoleOf(c) = "teacher"
       THEN /\ budget > 0 /\ Free # {}
            /\ Suspend(0, EndGameEntry([Idle EXCEPT !.kind = "endgame", !.user = c],
                                       storedState))
            /\ budget' = budget - 1
       ELSE UNCHANGED <<handlers, questionTimer, timers, budget>>
  /\ reply' = NoReply
  /\ UNCHANGED <<limiter, dispatched, students, storedState, storage, ruleset,
                 answersThisQuestion, clients, question_instances, attempts,
                 strength_events, sessions, now, sent>>

\* POST /end, sent by the end route while the session row is not completed.
HandleEnd ==
  /\ budget > 0 /\ Free # {}
  /\ sessions.status # "completed"
  /\ storedState # NoState \/ storage # NoState
  /\ IF CanLoad
       THEN /\ storedState' = storage
            /\ handlers' = Start([Idle EXCEPT !.kind = "end", !.pc = "load_teams"])
            /\ UNCHANGED <<questionTimer, timers>>
       ELSE /\ Suspend(0, EndGameEntry([Idle EXCEPT !.kind = "end"], storedState))
            /\ UNCHANGED storedState
  /\ budget' = budget - 1
  /\ reply' = NoReply
  /\ UNCHANGED <<limiter, dispatched, students, storage, ruleset, answersThisQuestion,
                 clients, question_instances, attempts, strength_events, sessions, now,
                 sent>>

\* handleEnd resumes after loadState.
EndLoaded(h) ==
  /\ handlers[h].kind = "end" /\ handlers[h].pc = "load_teams"
  /\ storedState' = TeamsLoaded
  /\ Suspend(h, EndGameEntry(handlers[h], TeamsLoaded))
  /\ UNCHANGED <<limiter, dispatched, students, storage, ruleset, answersThisQuestion,
                 clients, question_instances, attempts, strength_events, sessions, now,
                 budget, sent, reply>>

\* A pending setTimeout callback runs endCurrentQuestion.
TimerFire(t) ==
  /\ t \in timers /\ t.due <= now
  /\ IF storedState = NoState \/ storedState.currentQuestion = NoQuestion
       THEN /\ timers' = timers \ {t}
            /\ UNCHANGED <<questionTimer, handlers>>
       ELSE /\ Free # {}
            /\ timers' = {x \in timers \ {t} : x.q # questionTimer}
            /\ questionTimer' = 0
            /\ handlers' = Start(EndEntry([Idle EXCEPT !.kind = "timer"], storedState, "timer"))
  /\ UNCHANGED <<limiter, dispatched, students, storedState, storage, ruleset,
                 answersThisQuestion, clients, question_instances, attempts,
                 strength_events, sessions, now, budget, sent, reply>>

Reveal(q) ==
  [type |-> "QUESTION_REVEAL", questionInstanceId |-> q,
   correctAnswerId |-> QuestionRow.correct,
   totalAttempts |-> Len(answersThisQuestion),
   correctAttempts |->
     Cardinality({i \in 1..Len(answersThisQuestion) : answersThisQuestion[i].isCorrect})]

\* endCurrentQuestion resumes after UPDATE question_instances, and its caller goes on.
EndUpdated(h) ==
  /\ handlers[h].pc = "end_update"
  /\ LET r == handlers[h]
         S == [storedState EXCEPT !.phase = "reveal"]
     IN /\ question_instances' = [question_instances EXCEPT ![r.q].ended_at = r.at]
        /\ storedState' = S
        /\ storage' = S
        /\ sent' = Append(sent, Reveal(r.q))
        /\ IF r.kind = "timer"
             THEN /\ handlers' = Done(h)
                  /\ UNCHANGED <<questionTimer, timers>>
             ELSE Suspend(h, IF r.stage = "next"
                               THEN AfterEndNext(r, S)
                               ELSE [r EXCEPT !.pc = "session_update",
                                              !.newPos = Round(S.position)])
  /\ UNCHANGED <<limiter, dispatched, students, ruleset, answersThisQuestion, clients,
                 attempts, strength_events, sessions, now, budget, reply>>

\* startQuestion resumes after SELECT questions and builds the instance.
QuestionSelected(h) ==
  /\ handlers[h].pc = "question_select"
  /\ handlers' = Goto(h, [handlers[h] EXCEPT
       !.pc = "instance_insert", !.at = now,
       !.limit = IF ruleset.timeLimitMsPerQuestion # 0
                   THEN ruleset.timeLimitMsPerQuestion ELSE QuestionRow.time_limit_ms,
       !.points = IF ruleset.pointsPerCorrect # 0
                    THEN ruleset.pointsPerCorrect ELSE QuestionRow.points])
  /\ UNCHANGED <<limiter, dispatched, students, storedState, storage, ruleset,
                 answersThisQuestion, questionTimer, timers, clients, question_instances,
                 attempts, strength_events, sessions, now, budget, sent, reply>>

\* startQuestion's SELECT finds no row: startQuestion returns and handleNextQuestion
\* acknowledges; or the read is rejected: webSocketMessage answers INTERNAL_ERROR.
QuestionSelectFailed(h) ==
  /\ handlers[h].pc = "question_select"
  /\ \E thrown \in BOOLEAN :
       reply' = IF thrown THEN ErrorTo(handlers[h].user, "INTERNAL_ERROR")
                ELSE [to |-> handlers[h].user, type |-> "ACK", code |-> "",
                      correctAnswerId |-> ""]
  /\ handlers' = Done(h)
  /\ UNCHANGED <<limiter, dispatched, students, storedState, storage, ruleset,
                 answersThisQuestion, questionTimer, timers, clients, question_instances,
                 attempts, strength_events, sessions, now, budget, sent>>

\* The student-safe QUESTION event: the options are sent as id and text only.
Question(id, index) ==
  [type |-> "QUESTION", questionInstanceId |-> id, questionIndex |-> index,
   correctAnswerId |-> ""]

\* startQuestion resumes after INSERT question_instances.
InstanceInserted(h) ==
  /\ handlers[h].pc = "instance_insert"
  /\ LET r == handlers[h]
         id == Len(question_instances) + 1
         S == [storedState EXCEPT
                 !.currentQuestion =
                    [id |-> id, index |-> r.idx, startedAt |-> r.at,
                     timeLimitMs |-> r.limit, points |-> r.points],
                 !.currentQuestionIndex = r.idx,
                 !.phase = "active_question",
                 !.snapshotVersion = @ + 1]
     IN /\ question_instances' =
             Append(question_instances, [index |-> r.idx, started_at |-> r.at, ended_at |-> -1])
        /\ storedState' = S
        /\ storage' = S
        /\ answersThisQuestion' = <<>>
        /\ timers' = timers \cup {[q |-> id, due |-> now + r.limit]}
        /\ sent' = Append(sent, Question(id, r.idx))
        /\ questionTimer' = id
        /\ handlers' = Done(h)
  /\ UNCHANGED <<limiter, dispatched, students, ruleset, clients, attempts, strength_events,
                 sessions, now, budget, reply>>

\* The state is updated before the row is known to be written.
InstanceInsertFailedAfterUpdate(h) ==
  /\ handlers[h].pc = "instance_insert"
  /\ LET r == handlers[h]
         id == Len(question_instances) + 1
         S == [storedState EXCEPT
                 !.currentQuestion =
                    [id |-> id, index |-> r.idx, startedAt |-> r.at,
                     timeLimitMs |-> r.limit, points |-> r.points],
                 !.currentQuestionIndex = r.idx,
                 !.phase = "active_question",
                 !.snapshotVersion = @ + 1]
     IN /\ storedState' = S
        /\ reply' = ErrorTo(r.user, "INTERNAL_ERROR")
        /\ handlers' = Done(h)
  /\ UNCHANGED <<limiter, dispatched, students, storage, ruleset, answersThisQuestion,
                 questionTimer, timers, clients, question_instances, attempts,
                 strength_events, sessions, now, budget, sent>>
\* INSERT question_instances fails: the rejection leaves startQuestion and
\* handleNextQuestion and is answered with INTERNAL_ERROR in webSocketMessage.
InstanceInsertFailed(h) ==
  /\ handlers[h].pc = "instance_insert"
  /\ reply' = ErrorTo(handlers[h].user, "INTERNAL_ERROR")
  /\ handlers' = Done(h)
  /\ UNCHANGED <<limiter, dispatched, students, storedState, storage, ruleset,
                 answersThisQuestion, questionTimer, timers, clients, question_instances,
                 attempts, strength_events, sessions, now, budget, sent>>

GameEnd(S) ==
  [type |-> "GAME_END",
   winner |-> IF S.position < TUG_START_POSITION * PosScale /\ Len(S.teams) >= 1 THEN S.teams[1]
              ELSE IF S.position > TUG_START_POSITION * PosScale /\ Len(S.teams) >= 2 THEN S.teams[2]
              ELSE "",
   finalPosition |-> S.position, correctAnswerId |-> ""]

\* endGame resumes after UPDATE sessions.
SessionUpdated(h) ==
  /\ handlers[h].pc = "session_update"
  /\ LET S == [storedState EXCEPT !.phase = "completed"]
     IN /\ sessions' = [status |-> "completed", final_position |-> handlers[h].newPos]
        /\ storedState' = S
        /\ storage' = S
        /\ sent' = Append(sent, GameEnd(S))
  /\ clients' = {}
  /\ handlers' = Done(h)
  /\ UNCHANGED <<limiter, dispatched, students, ruleset, answersThisQuestion, questionTimer,
                 timers, question_instances, attempts, strength_events, now, budget, reply>>

\* TEACHER_PAUSE: handlePause returns at once for a student connection and outside
\* active_question.
Pause(c) ==
  /\ c \in clients
  /\ IF RoleOf(c) = "teacher" /\ storedState.phase = "active_question"
       THEN /\ budget > 0
            /\ storedState' = [storedState EXCEPT !.phase = "paused"]
            /\ storage' = storedState'
            /\ budget' = budget - 1
       ELSE UNCHANGED <<storedState, storage, budget>>
  /\ reply' = NoReply
  /\ UNCHANGED <<limiter, dispatched, students, ruleset, answersThisQuestion, questionTimer,
                 timers, clients, question_instances, attempts, strength_events, sessions,
                 handlers, now, sent>>

\* TEACHER_RESUME answers a TEACHER_PAUSE, which was counted.
Resume(c) ==
  /\ c \in clients
  /\ IF RoleOf(c) = "teacher" /\ storedState.phase = "paused"
       THEN /\ storedState' = [storedState EXCEPT !.phase = "active_question"]
            /\ storage' = storedState'
       ELSE UNCHANGED <<storedState, storage>>
  /\ reply' = NoReply
  /\ UNCHANGED <<limiter, dispatched, students, ruleset, answersThisQuestion, questionTimer,
                 timers, clients, question_instances, attempts, strength_events, sessions,
                 handlers, now, budget, sent>>

\* A message that is not JSON or that clientMessageSchema refuses (an unknown type
\* included): it is counted by the rate limiter and answered with an error.
Malformed(c) ==
  /\ c \in clients
  /\ LET expired == now - limiter[c].messageWindowStart > RateWindowTicks
         count == (IF expired THEN 0 ELSE limiter[c].messageCount) + 1
     IN /\ count <= WS_RATE_LIMIT_PER_SECOND + MaxRejected
        /\ limiter' = [limiter EXCEPT ![c] =
                         [messageCount |-> count,
                          messageWindowStart |-> IF expired THEN now
                                                 ELSE @.messageWindowStart]]
        /\ reply' = IF count > WS_RATE_LIMIT_PER_SECOND
                      THEN ErrorTo(c, "RATE_LIMITED") ELSE ErrorTo(c, "INVALID_MESSAGE")
  /\ UNCHANGED <<dispatched, storedState, storage, ruleset, answersThisQuestion,
                 questionTimer, timers, clients, question_instances, attempts,
                 strength_events, sessions, handlers, now, budget, sent, students>>

\* ------------------------------------------------------------ answers
\* floor(points * 0.5 * max(0, 1 - responseTimeMs / timeLimitMs))
SpeedBonus(points, responseTimeMs, timeLimitMs) ==
  IF responseTimeMs >= timeLimitMs THEN 0
  ELSE (points * (timeLimitMs - responseTimeMs)) \div (2 * timeLimitMs)

PointsForAnyAnswer(isCorrect, q, t) ==
  q.points + (IF ruleset.pointsForSpeed
                THEN SpeedBonus(q.points, t - q.startedAt, q.timeLimitMs) ELSE 0)
PointsAwarded(isCorrect, q, t) ==
  IF ~isCorrect THEN 0
  ELSE q.points + (IF ruleset.pointsForSpeed
                     THEN SpeedBonus(q.points, t - q.startedAt, q.timeLimitMs) ELSE 0)

AnswerRecord(u, team, choice, isCorrect, points, t, q) ==
  [studentId |-> u, teamId |-> team, answerId |-> choice, isCorrect |-> isCorrect,
   responseTimeMs |-> t - q.startedAt, pointsAwarded |-> points]

AttemptRow(r) ==
  [question_instance_id |-> r.q, student_id |-> r.user, team_id |-> r.team,
   answer_id |-> r.choice, is_correct |-> r.correct, points_awarded |-> r.points]

\* The first check of handleSubmitAnswer that fails, "" when none does.
SubmitErrorInAnyPhase(c, inst, choice) ==
  IF RoleOf(c) # "student" THEN "NOT_AUTHORIZED"
  ELSE IF storedState = NoState \/ storedState.currentQuestion = NoQuestion THEN "INVALID_MESSAGE"
  ELSE IF inst # storedState.currentQuestion.id THEN "QUESTION_EXPIRED"
  ELSE IF Answered(c) THEN "ALREADY_ANSWERED"
  ELSE IF choice \notin AnswerIds THEN "INVALID_ANSWER"
  ELSE ""
SubmitError(c, inst, choice) ==
  IF RoleOf(c) # "student" THEN "NOT_AUTHORIZED"
  ELSE IF storedState = NoState \/ storedState.currentQuestion = NoQuestion THEN "INVALID_MESSAGE"
  ELSE IF storedState.phase # "active_question" THEN "INVALID_MESSAGE"
  ELSE IF inst # storedState.currentQuestion.id THEN "QUESTION_EXPIRED"
  ELSE IF Answered(c) THEN "ALREADY_ANSWERED"
  ELSE IF choice \notin AnswerIds THEN "INVALID_ANSWER"
  ELSE ""

\* SUBMIT_ANSWER on the connection of user c, up to INSERT attempts.
SubmitAnswer(c, inst, choice) ==
  /\ c \in clients \cup {Anonymous}
  /\ IF SubmitError(c, inst, choice) # ""
       THEN /\ reply' = ErrorTo(c, SubmitError(c, inst, choice))
            /\ UNCHANGED <<answersThisQuestion, handlers, budget>>
       ELSE /\ budget > 0 /\ Free # {}
            /\ LET q == storedState.currentQuestion
                   isCorrect == choice = QuestionRow.correct
                   points == PointsAwarded(isCorrect, q, now)
               IN /\ answersThisQuestion' = Append(answersThisQuestion,
                       AnswerRecord(c, TeamOf(c), choice, isCorrect, points, now, q))
                  /\ handlers' = Start([Idle EXCEPT
                       !.kind = "submit", !.pc = "attempt_insert", !.user = c,
                       !.team = TeamOf(c), !.q = q.id, !.choice = choice,
                       !.correct = isCorrect, !.points = points, !.at = now,
                       !.seq = Len(answersThisQuestion) + 1])
            /\ budget' = budget - 1
            /\ reply' = NoReply
  /\ UNCHANGED <<limiter, dispatched, students, storedState, storage, ruleset,
                 questionTimer, timers, clients, question_instances, attempts,
                 strength_events, sessions, now, sent>>

TeamIndex(S, team) ==
  IF \E i \in 1..Len(S.teams) : S.teams[i] = team
    THEN (CHOOSE i \in 1..Len(S.teams) : S.teams[i] = team) - 1 ELSE -1

\* The signed tug delta of a correct answer worth `points`, the team's streak
\* having reached `current`.
TugDelta(S, team, points, current) ==
  LET base == IF TeamIndex(S, team) = 0 THEN -(points * PosScale) \div 10
              ELSE (points * PosScale) \div 10
      threshold == IF ruleset.streakThreshold # 0 THEN ruleset.streakThreshold ELSE 3
      multX2 == IF ruleset.streakMultiplierX2 # 0 THEN ruleset.streakMultiplierX2 ELSE 3
  IN IF ruleset.streakBonus /\ current >= threshold THEN (base * multX2) \div 2 ELSE base

StreaksAfter(S, team) ==
  [t \in DOMAIN S.streaks |->
     IF t = team
       THEN [current |-> S.streaks[t].current + 1,
             max |-> Max(S.streaks[t].max, S.streaks[t].current + 1)]
     ELSE IF \E i \in 1..Len(S.teams) : S.teams[i] = t
       THEN [current |-> 0, max |-> S.streaks[t].max]
     ELSE S.streaks[t]]

TugUpdate(position, delta, reason, team, by, q) ==
  [type |-> "TUG_UPDATE", position |-> position, delta |-> delta, reason |-> reason,
   teamId |-> team, by |-> by, q |-> q, correctAnswerId |-> ""]

\* ANSWER_RESULT, sent to the submitter.
AnswerResult(u, isCorrect, pointsAwarded) ==
  [to |-> u, type |-> "ANSWER_RESULT", code |-> "", correct |-> isCorrect,
   pointsAwarded |-> pointsAwarded, correctAnswerId |-> QuestionRow.correct]

\* handleSubmitAnswer resumes after INSERT attempts: the tug movement.
AttemptInserted(h) ==
  /\ handlers[h].kind = "submit" /\ handlers[h].pc = "attempt_insert"
  /\ LET r == handlers[h] IN
     /\ attempts' = Append(attempts, AttemptRow(r))
     /\ IF r.correct /\ r.team # ""
          THEN LET delta == TugDelta(storedState, r.team, r.points,
                                     storedState.streaks[r.team].current + 1)
                   newPosition == Clamp(storedState.position + delta)
               IN /\ storedState' = [storedState EXCEPT
                                       !.streaks = StreaksAfter(storedState, r.team),
                                       !.position = newPosition,
                                       !.lastEventId = NextMove]
                  /\ handlers' = Goto(h, [r EXCEPT !.pc = "strength_insert",
                                                   !.delta = delta, !.newPos = newPosition,
                                                   !.ord = NextMove])
                  /\ UNCHANGED <<storage, reply>>
          ELSE /\ reply' = AnswerResult(r.user, r.correct, r.points)
               /\ storage' = storedState
               /\ handlers' = Done(h)
               /\ UNCHANGED storedState
  /\ UNCHANGED <<limiter, dispatched, students, ruleset, answersThisQuestion, questionTimer,
                 timers, clients, question_instances, strength_events, sessions, now,
                 budget, sent>>

\* INSERT attempts fails: the rejection is caught in webSocketMessage, which answers
\* INTERNAL_ERROR; the rest of handleSubmitAnswer does not run.
AttemptFailed(h) ==
  /\ handlers[h].kind = "submit" /\ handlers[h].pc = "attempt_insert"
  /\ reply' = ErrorTo(handlers[h].user, "INTERNAL_ERROR")
  /\ handlers' = Done(h)
  /\ UNCHANGED <<limiter, dispatched, students, storedState, storage, ruleset,
                 answersThisQuestion, questionTimer, timers, clients, question_instances,
                 attempts, strength_events, sessions, now, budget, sent>>

StrengthRow(team, delta, reason, newPosition, by) ==
  [team_id |-> team, delta |-> Round(delta * 10),
   reason |-> reason, new_position |-> Round(newPosition), triggered_by |-> by]

\* handleSubmitAnswer resumes after INSERT strength_events: broadcast, result, save.
StrengthInserted(h) ==
  /\ handlers[h].kind = "submit" /\ handlers[h].pc = "strength_insert"
  /\ LET r == handlers[h] IN
     /\ strength_events' = Append(strength_events,
          StrengthRow(r.team, r.delta, "correct_answer", r.newPos, r.user))
     /\ sent' = Append(sent, TugUpdate(r.newPos, r.delta, "correct_answer", r.team, r.user, r.q))
     /\ reply' = AnswerResult(r.user, r.correct, r.points)
  /\ storage' = storedState
  /\ handlers' = Done(h)
  /\ UNCHANGED <<limiter, dispatched, students, storedState, ruleset, answersThisQuestion,
                 questionTimer, timers, clients, question_instances, attempts, sessions,
                 now, budget>>

\* The first check of handleHttpAnswer that fails, "" when none does.
HttpAnswerError(u, inst, choice) ==
  IF storedState = NoState \/ storedState.currentQuestion = NoQuestion THEN "No active question"
  ELSE IF storedState.phase # "active_question" THEN "Not accepting answers"
  ELSE IF inst # storedState.currentQuestion.id THEN "Question expired"
  ELSE IF Answered(u) THEN "Already answered"
  ELSE IF choice \notin AnswerIds THEN "Invalid answer"
  ELSE ""

\* handleHttpAnswer from its checks to INSERT attempts; h = 0 for a new handler.
HttpAnswerBody(h, u, inst, choice) ==
  IF HttpAnswerError(u, inst, choice) # ""
    THEN /\ reply' = HttpError(HttpAnswerError(u, inst, choice))
         /\ handlers' = IF h = 0 THEN handlers ELSE Done(h)
         /\ UNCHANGED answersThisQuestion
    ELSE LET q == storedState.currentQuestion
             isCorrect == choice = QuestionRow.correct
             points == IF isCorrect THEN q.points ELSE 0
             r == [Idle EXCEPT
                     !.kind = "http", !.pc = "attempt_insert", !.user = u,
                     !.team = TeamOf(u), !.q = q.id, !.choice = choice,
                     !.correct = isCorrect, !.points = points, !.at = now,
                     !.seq = Len(answersThisQuestion) + 1]
         IN /\ answersThisQuestion' = Append(answersThisQuestion,
                 AnswerRecord(u, TeamOf(u), choice, isCorrect, points, now, q))
            /\ handlers' = IF h = 0 THEN Start(r) ELSE Goto(h, r)
            /\ reply' = NoReply

\* POST /answer for student u, forwarded by the answers route.
HttpAnswer(u, inst, choice) ==
  /\ u \in Students
  /\ budget > 0 /\ Free # {}
  /\ IF CanLoad
       THEN /\ storedState' = storage
            /\ handlers' = Start([Idle EXCEPT !.kind = "http", !.pc = "load_teams",
                                              !.user = u, !.q = inst, !.choice = choice])
            /\ reply' = NoReply
            /\ UNCHANGED answersThisQuestion
       ELSE /\ HttpAnswerBody(0, u, inst, choice)
            /\ UNCHANGED storedState
  /\ budget' = budget - 1
  /\ UNCHANGED <<limiter, dispatched, students, storage, ruleset, questionTimer, timers,
                 clients, question_instances, attempts, strength_events, sessions, now,
                 sent>>

\* handleHttpAnswer resumes after loadState.
HttpLoaded(h) ==
  /\ handlers[h].kind = "http" /\ handlers[h].pc = "load_teams"
  /\ storedState' = TeamsLoaded
  /\ HttpAnswerBody(h, handlers[h].user, handlers[h].q, handlers[h].choice)
  /\ UNCHANGED <<limiter, dispatched, students, storage, ruleset, questionTimer, timers,
                 clients, question_instances, attempts, strength_events, sessions, now,
                 budget, sent>>

\* handleHttpAnswer resumes after INSERT attempts and returns.
HttpAttemptInserted(h) ==
  /\ handlers[h].kind = "http" /\ handlers[h].pc = "attempt_insert"
  /\ attempts' = Append(attempts, AttemptRow(handlers[h]))
  /\ reply' = [to |-> "http", type |-> "200", code |-> "", correctAnswerId |-> ""]
  /\ handlers' = Done(h)
  /\ UNCHANGED <<limiter, dispatched, students, storedState, storage, ruleset,
                 answersThisQuestion, questionTimer, timers, clients, question_instances,
                 strength_events, sessions, now, budget, sent>>

\* TEACHER_MANUAL_ADJUST with delta d, up to INSERT strength_events.
ManualAdjust(c, d) ==
  /\ c \in clients
  /\ IF RoleOf(c) = "teacher"
       THEN /\ budget > 0 /\ Free # {}
            /\ LET delta == Max(-100, Min(100, d)) * PosScale
                   newPosition == Clamp(storedState.position + delta)
               IN /\ storedState' = [storedState EXCEPT !.position = newPosition,
                                                        !.lastEventId = NextMove]
                  /\ handlers' = Start([Idle EXCEPT
                       !.kind = "adjust", !.pc = "manual_insert", !.user = c,
                       !.delta = delta, !.newPos = newPosition, !.ord = NextMove])
            /\ storage' = storedState'
            /\ budget' = budget - 1
       ELSE UNCHANGED <<storedState, handlers, storage, budget>>
  /\ reply' = NoReply
  /\ UNCHANGED <<limiter, dispatched, students, ruleset, answersThisQuestion, questionTimer,
                 timers, clients, question_instances, attempts, strength_events, sessions,
                 now, sent>>

\* handleManualAdjust resumes after INSERT strength_events and broadcasts.
ManualInserted(h) ==
  /\ handlers[h].kind = "adjust" /\ handlers[h].pc = "manual_insert"
  /\ LET r == handlers[h]
         team == IF Len(storedState.teams) >= (IF r.delta > 0 THEN 2 ELSE 1)
                   THEN storedState.teams[IF r.delta > 0 THEN 2 ELSE 1] ELSE ""
     IN /\ strength_events' = Append(strength_events,
             StrengthRow(team, r.delta, "manual_adjust", r.newPos, r.user))
        /\ sent' = Append(sent, TugUpdate(r.newPos, r.delta, "manual_adjust", team, r.user, 0))
  /\ handlers' = Done(h)
  /\ UNCHANGED <<limiter, dispatched, students, storedState, storage, ruleset,
                 answersThisQuestion, questionTimer, timers, clients, question_instances,
                 attempts, sessions, now, budget, reply>>

\* The clock is read only to stamp a question instance and to measure from that
\* stamp, so time is counted from the first start of a question.
ClockObserved ==
  \/ timers # {}
  \/ Phase \in {"active_question", "paused"}
  \/ \E h \in Slots : handlers[h].pc = "instance_insert"

\* Time passes; a callback that is due runs before the clock moves on.
Tick ==
  /\ now < MaxTime
  /\ ClockObserved
  /\ \A t \in timers : t.due > now
  /\ now' = now + 1
  /\ UNCHANGED <<limiter, dispatched, students, storedState, storage, ruleset,
                 answersThisQuestion, questionTimer, timers, clients, question_instances,
                 attempts, strength_events, sessions, handlers, budget, sent, reply>>

\* The instance ids a client can name: those of the instances asked so far.
InstanceIds == 1..Max(1, Len(question_instances))

\* The users that open a connection while the game is followed from its start.
Connecting == {"T", "s1"}

Next ==
  \/ \E u \in Connecting : Hello(u)
  \/ \E h \in Slots : HelloLoaded(h)
  \/ \E h \in Slots : HelloConnected(h)
  \/ Unload
  \/ \E c \in Users : NextQuestion(c)
  \/ \E c \in Users : TeacherEndGame(c)
  \/ HandleEnd
  \/ \E h \in Slots : EndLoaded(h)
  \/ \E t \in timers : TimerFire(t)
  \/ \E h \in Slots : EndUpdated(h)
  \/ \E h \in Slots : QuestionSelected(h)
  \/ \E h \in Slots : InstanceInserted(h)
  \/ \E h \in Slots : SessionUpdated(h)
  \/ \E c \in Users : Pause(c)
  \/ \E c \in Users : Resume(c)
  \/ Tick
  \/ \E c \in Users, inst \in InstanceIds, choice \in AnswerIds : SubmitAnswer(c, inst, choice)
  \/ \E h \in Slots : AttemptInserted(h)
  \/ \E h \in Slots : StrengthInserted(h)
  \/ \E u \in Students, inst \in InstanceIds, choice \in AnswerIds : HttpAnswer(u, inst, choice)
  \/ \E h \in Slots : HttpLoaded(h)
  \/ \E h \in Slots : HttpAttemptInserted(h)
  \/ \E c \in Users, d \in ManualDeltas : ManualAdjust(c, d)
  \/ \E h \in Slots : ManualInserted(h)
  \/ \E rs \in {TRUE} : HandleInit(rs)
  \/ \E h \in Slots : InitTeamsLoaded(h)
  \/ \E h \in Slots : InitRulesetLoaded(h)
  \/ \E u \in Connecting : GetState(u)
  \/ \E h \in Slots : StateLoaded(h)
  \/ \E c \in Users, s \in Connecting \ Teachers : TeacherKick(c, s)
  \/ \E s \in Connecting \ Teachers : HandleKick(s)
  \/ \E h \in Slots : KickUpdated(h)
  \/ \E h \in Slots : KickTeamsLoaded(h)

Spec == Init /\ [][Next]_vars

\* ------------------------------------------------------------ a game under way
\* The engine after /init with a ruleset has completed, the teacher and both students
\* have said HELLO, and TEACHER_NEXT_QUESTION has started the first question.
ReadyState ==
  [phase |-> "ready", position |-> TUG_START_POSITION * PosScale,
   numQuestionIds |-> NumQuestions, currentQuestionIndex |-> -1,
   currentQuestion |-> NoQuestion, teams |-> Teams, streaks |-> ZeroStreaks,
   snapshotVersion |-> 1, lastEventId |-> 0]
FirstQuestion ==
  [id |-> 1, index |-> 0, startedAt |-> 0,
   timeLimitMs |-> Rules.timeLimitMsPerQuestion, points |-> Rules.pointsPerCorrect]
ActiveState ==
  [ReadyState EXCEPT !.phase = "active_question", !.currentQuestionIndex = 0,
                     !.currentQuestion = FirstQuestion, !.snapshotVersion = 2]

QuestionActive ==
  /\ storedState = ActiveState
  /\ storage = ActiveState
  /\ ruleset = Rules
  /\ answersThisQuestion = <<>>
  /\ questionTimer = 1
  /\ timers = {[q |-> 1, due |-> FirstQuestion.timeLimitMs]}
  /\ clients = Users
  /\ question_instances = <<[index |-> 0, started_at |-> 0, ended_at |-> -1]>>
  /\ attempts = <<>>
  /\ strength_events = <<>>
  /\ sessions = [status |-> "ready", final_position |-> -1]
  /\ handlers = [h \in Slots |-> Idle]
  /\ now = 0
  /\ sent = <<Question(1, 0)>>
  /\ reply = NoReply
  /\ students = [s \in Students |-> "connected"]
  /\ limiter = [u \in Users |-> NewConnection]
  /\ dispatched = [u \in Users |-> [t \in 0..MaxTime |-> 0]]

InitActive == QuestionActive /\ budget = MaxCommands

\* Answering, adjusting, pausing and unloading while the first question is active and
\* its deadline is still ahead.
NextAnswers ==
  \/ \E c \in Users, inst \in InstanceIds, choice \in AnswerIds : SubmitAnswer(c, inst, choice)
  \/ \E h \in Slots : AttemptInserted(h)
  \/ \E h \in Slots : StrengthInserted(h)
  \/ \E u \in Students, inst \in InstanceIds, choice \in AnswerIds : HttpAnswer(u, inst, choice)
  \/ \E h \in Slots : HttpLoaded(h)
  \/ \E h \in Slots : HttpAttemptInserted(h)
  \/ \E c \in Users, d \in ManualDeltas : ManualAdjust(c, d)
  \/ \E h \in Slots : ManualInserted(h)
  \/ \E c \in Users : Pause(c)
  \/ \E c \in Users : Resume(c)
  \/ Unload
  \/ \E u \in Connecting : Hello(u)
  \/ \E h \in Slots : HelloLoaded(h)
  \/ \E h \in Slots : HelloConnected(h)
  \/ \E rs \in {TRUE} : HandleInit(rs)
  \/ \E h \in Slots : InitTeamsLoaded(h)
  \/ \E h \in Slots : InitRulesetLoaded(h)

SpecAnswers == InitActive /\ [][NextAnswers]_vars

\* QuestionActive is a state the engine reaches from its construction: /init, a
\* HELLO of every user, TEACHER_NEXT_QUESTION (Next with Connecting = Users).
NotQuestionActive == ~QuestionActive

\* Moving the rope while the first question is active: correct answers over
\* WebSocket, manual adjustments, and a repeated /init.
NextTug ==
  \/ \E c \in Students : SubmitAnswer(c, 1, QuestionRow.correct)
  \/ \E h \in Slots : AttemptInserted(h)
  \/ \E h \in Slots : StrengthInserted(h)
  \/ \E c \in Teachers, d \in ManualDeltas : ManualAdjust(c, d)
  \/ \E h \in Slots : ManualInserted(h)
  \/ \E rs \in {TRUE} : HandleInit(rs)
  \/ \E h \in Slots : InitTeamsLoaded(h)
  \/ \E h \in Slots : InitRulesetLoaded(h)

SpecTug == InitActive /\ [][NextTug]_vars

\* The first question runs to its deadline with nobody pausing: time passes, the
\* timer callback ends the question, a student answers over WebSocket, and the engine
\* may be unloaded and rehydrated.
NextDeadline ==
  \/ Tick
  \/ \E t \in timers : TimerFire(t)
  \/ \E h \in Slots : EndUpdated(h)
  \/ \E choice \in AnswerIds : SubmitAnswer("s1", 1, choice)
  \/ \E h \in Slots : AttemptInserted(h)
  \/ \E h \in Slots : StrengthInserted(h)
  \/ Unload
  \/ \E u \in Users : Hello(u)
  \/ \E h \in Slots : HelloLoaded(h)
  \/ \E h \in Slots : HelloConnected(h)

SpecDeadline == InitActive /\ [][NextDeadline]_vars

\* The first question with the teacher pausing and resuming while time passes.
NextPause ==
  \/ Tick
  \/ \E t \in timers : TimerFire(t)
  \/ \E h \in Slots : EndUpdated(h)
  \/ \E c \in Users : Pause(c)
  \/ \E c \in Users : Resume(c)
  \/ \E c \in {"s1", "s2"}, choice \in AnswerIds : SubmitAnswer(c, 1, choice)
  \/ \E h \in Slots : AttemptInserted(h)
  \/ \E h \in Slots : StrengthInserted(h)

SpecPause == InitActive /\ [][NextPause]_vars

\* The first question while students answer over WebSocket and the engine may be
\* unloaded and rehydrated by the next HELLO.
NextRehydrate ==
  \/ \E c \in Students, choice \in AnswerIds : SubmitAnswer(c, 1, choice)
  \/ \E h \in Slots : AttemptInserted(h)
  \/ \E h \in Slots : StrengthInserted(h)
  \/ Unload
  \/ \E u \in Users : Hello(u)
  \/ \E h \in Slots : HelloLoaded(h)
  \/ \E h \in Slots : HelloConnected(h)

SpecRehydrate == InitActive /\ [][NextRehydrate]_vars

\* The first question while the teacher and the control API kick students and
\* users say HELLO.
NextKick ==
  \/ \E c \in Teachers, s \in Students : TeacherKick(c, s)
  \/ \E s \in Students : HandleKick(s)
  \/ \E h \in Slots : KickUpdated(h)
  \/ \E h \in Slots : KickTeamsLoaded(h)
  \/ \E u \in Users : Hello(u)
  \/ \E h \in Slots : HelloConnected(h)

SpecKick == InitActive /\ [][NextKick]_vars

\* The first question while one connection sends PING after PING.
NextRate ==
  \/ Tick
  \/ \E t \in timers : TimerFire(t)
  \/ \E h \in Slots : EndUpdated(h)
  \/ \E c \in {"s1"} : Ping(c)

SpecRate == InitActive /\ [][NextRate]_vars

\* The first question while students answer over WebSocket and the relational store
\* may refuse an attempt.
NextFailure ==
  \/ \E c \in Students, choice \in AnswerIds : SubmitAnswer(c, 1, choice)
  \/ \E h \in Slots : AttemptInserted(h)
  \/ \E h \in Slots : AttemptFailed(h)
  \/ \E h \in Slots : StrengthInserted(h)

SpecFailure == InitActive /\ [][NextFailure]_vars

\* The game from its first question to its end: the deadline, the teacher's next
\* question and end of game, and the end route.
NextEnd ==
  \/ Tick
  \/ \E t \in timers : TimerFire(t)
  \/ \E h \in Slots : EndUpdated(h)
  \/ \E c \in Teachers : NextQuestion(c)
  \/ \E h \in Slots : QuestionSelected(h)
  \/ \E h \in Slots : InstanceInserted(h)
  \/ \E c \in Teachers : TeacherEndGame(c)
  \/ HandleEnd
  \/ \E h \in Slots : SessionUpdated(h)
  \/ \E c \in {"s1"} : SubmitAnswer(c, 1, QuestionRow.correct)
  \/ \E h \in Slots : AttemptInserted(h)
  \/ \E h \in Slots : StrengthInserted(h)

SpecEnd == InitActive /\ [][NextEnd]_vars

\* The first question while holders of any valid token say HELLO, the engine may be
\* unloaded, and connected teachers pause and resume.
NextAuth ==
  \/ \E u \in Tokens : Hello(u)
  \/ \E h \in Slots : HelloLoaded(h)
  \/ \E h \in Slots : HelloConnected(h)
  \/ Unload
  \/ \E c \in Teachers \cup Foreign : Pause(c)
  \/ \E c \in Teachers \cup Foreign : Resume(c)

SpecAuth == InitActive /\ [][NextAuth]_vars

\* The first question while connections send what the engine refuses: malformed
\* messages, commands of the other role, answers and pauses out of place.
NextReject ==
  \/ \E c \in {"s1"} : Malformed(c)
  \/ \E c \in {"T", "s1"}, inst \in 1..NumQuestions, choice \in AnswerIds \cup {"z"} :
       SubmitAnswer(c, inst, choice)
  \/ \E h \in Slots : AttemptInserted(h)
  \/ \E h \in Slots : StrengthInserted(h)
  \/ \E c \in {"T", "s1"} : Pause(c)
  \/ \E c \in {"T", "s1"} : Resume(c)
  \/ \E c \in {"s1"} : NextQuestion(c)
  \/ \E c \in {"s1"}, d \in ManualDeltas : ManualAdjust(c, d)
  \/ \E c \in {"s1"} : TeacherEndGame(c)
  \/ \E c \in {"s1"}, s \in {"s2"} : TeacherKick(c, s)

SpecReject == InitActive /\ [][NextReject]_vars

\* The questions of a game: the teacher advances, pauses and resumes, and
\* deadlines pass.
NextQuestions ==
  \/ Tick
  \/ \E t \in timers : TimerFire(t)
  \/ \E h \in Slots : EndUpdated(h)
  \/ \E c \in Teachers : NextQuestion(c)
  \/ \E h \in Slots : QuestionSelected(h)
  \/ \E h \in Slots : InstanceInserted(h)
  \/ \E h \in Slots : SessionUpdated(h)
  \/ \E c \in Teachers : Pause(c)
  \/ \E c \in Teachers : Resume(c)

SpecQuestions == InitActive /\ [][NextQuestions]_vars

\* The teacher advances through the questions while the reads and writes of
\* startQuestion may fail.
NextStart ==
  \/ \E h \in Slots : EndUpdated(h)
  \/ \E c \in Teachers : NextQuestion(c)
  \/ \E h \in Slots : QuestionSelected(h)
  \/ \E h \in Slots : QuestionSelectFailed(h)
  \/ \E h \in Slots : InstanceInserted(h)
  \/ \E h \in Slots : InstanceInsertFailed(h)
  \/ \E h \in Slots : SessionUpdated(h)

SpecStart == InitActive /\ [][NextStart]_vars

\* The first question while students and a connection that never said HELLO send
\* answers, and attempt writes may fail.
NextAnonymous ==
  \/ \E c \in {Anonymous, "s1", "s2"}, choice \in AnswerIds : SubmitAnswer(c, 1, choice)
  \/ \E h \in Slots : AttemptInserted(h)
  \/ \E h \in Slots : AttemptFailed(h)
  \/ \E h \in Slots : StrengthInserted(h)

SpecAnonymous == InitActive /\ [][NextAnonymous]_vars

\* ============================================================ claims
\* C1: the persisted attempts never hold two rows with the same
\* (question_instance_id, student_id).
AttemptsUnique ==
  \A i, j \in 1..Len(attempts) :
    (attempts[i].question_instance_id = attempts[j].question_instance_id
       /\ attempts[i].student_id = attempts[j].student_id) => i = j

\* C2: while a handler stays suspended at its await, no step of another handler or
\* timer callback changes the runtime state (phase, position, streaks, current
\* question, admissions map).
HandlersSerialized ==
  [][(\E h \in Slots : handlers[h].kind # "idle" /\ handlers'[h] = handlers[h])
       => UNCHANGED <<storedState, answersThisQuestion>>]_vars

\* C3: the position of an initialised session stays within [0, 100], in memory and
\* in the State Store, and /init sets it to 50.
PositionInRange ==
  /\ storedState # NoState =>
        /\ storedState.position >= TUG_MIN_POSITION * PosScale
        /\ storedState.position <= TUG_MAX_POSITION * PosScale
  /\ storage # NoState =>
        /\ storage.position >= TUG_MIN_POSITION * PosScale
        /\ storage.position <= TUG_MAX_POSITION * PosScale
PositionBounded ==
  /\ []PositionInRange
  /\ [][(\E rs \in BOOLEAN : HandleInit(rs))
          => storedState'.position = TUG_START_POSITION * PosScale]_vars

\* C3 witness: a manual adjustment or a correct answer whose delta would have
\* carried the rope past an end has left it exactly on that end.
ClampedAtAnEnd ==
  \E h \in Slots :
    /\ handlers[h].pc \in {"manual_insert", "strength_insert"}
    /\ handlers[h].newPos = storedState.position
    /\ storedState.position \in {TUG_MIN_POSITION * PosScale, TUG_MAX_POSITION * PosScale}
    /\ handlers[h].delta \notin {-(TUG_START_POSITION * PosScale), TUG_START_POSITION * PosScale}

\* C10: a TUG_UPDATE for a correct answer is broadcast only when no correct answer
\* to the same question that was admitted earlier, and applied to the position
\* earlier, still waits for its own TUG_UPDATE.
TugUpdatesInAdmissionOrder ==
  [][\A h \in Slots :
       (handlers[h].kind = "submit" /\ handlers[h].pc = "strength_insert"
          /\ handlers'[h] = Idle)
       => ~ \E g \in Slots \ {h} :
              /\ handlers[g].kind = "submit" /\ handlers[g].pc = "strength_insert"
              /\ handlers[g].q = handlers[h].q
              /\ handlers[g].seq < handlers[h].seq
              /\ handlers[g].ord < handlers[h].ord]_vars
\* C4: every change of the phase is a transition of the phase machine.
PhaseMachine ==
  {<<"lobby", "ready">>, <<"ready", "active_question">>, <<"reveal", "active_question">>,
   <<"active_question", "reveal">>, <<"active_question", "paused">>,
   <<"paused", "active_question">>, <<"reveal", "completed">>,
   <<"active_question", "completed">>, <<"paused", "completed">>}
PhaseFollowsMachine == [][Phase' # Phase => <<Phase, Phase'>> \in PhaseMachine]_vars

\* C5: once the phase is completed it never takes another value.
CompletedIsTerminal == [][Phase = "completed" => Phase' = "completed"]_vars

\* C6: the snapshot version of a session never decreases.
SnapshotVersion ==
  IF storedState # NoState THEN storedState.snapshotVersion
  ELSE IF storage # NoState THEN storage.snapshotVersion ELSE 0
SnapshotVersionMonotonic == [][SnapshotVersion' >= SnapshotVersion]_vars

\* C7: with no pause, once the clock has passed started_at + time_limit_ms of a
\* started question, end-question has been invoked for it: the phase is no longer
\* active_question, or a handler is inside endCurrentQuestion for that question.
EndInvoked(q) ==
  \/ \E h \in Slots : handlers[h].pc = "end_update" /\ handlers[h].q = q
  \/ q \in 1..Len(question_instances) /\ question_instances[q].ended_at # -1
CurrentQuestion ==
  IF storedState # NoState THEN storedState.currentQuestion ELSE storage.currentQuestion
QuestionEndedByDeadline ==
  (Phase = "active_question"
     /\ now > CurrentQuestion.startedAt + CurrentQuestion.timeLimitMs)
  => EndInvoked(CurrentQuestion.id)

\* C8: the deadline timer never ends the question while the phase is paused.
PauseFreezesDeadline ==
  [][\A h \in Slots :
       (handlers[h].kind = "timer" /\ handlers[h].pc = "end_update" /\ handlers'[h] = Idle)
       => storedState.phase # "paused"]_vars

\* C9: once end-question has been invoked for the current question instance, no
\* answer to it is added to the admissions map.
NoAdmissionAfterEnd ==
  [][Len(answersThisQuestion') > Len(answersThisQuestion)
       => ~EndInvoked(storedState'.currentQuestion.id)]_vars

\* C11: a SUBMIT_ANSWER for the current question by a student whose first submission
\* for it was admitted is answered with ERROR{ALREADY_ANSWERED} and changes neither
\* the attempts, nor the admissions map, nor position and streaks, and starts no
\* handler (so no second ANSWER_RESULT follows).
FirstAdmitted(c) ==
  \/ Answered(c)
  \/ \E i \in 1..Len(attempts) :
       /\ attempts[i].question_instance_id = storedState.currentQuestion.id
       /\ attempts[i].student_id = c
RepeatedSubmitRejected ==
  [][\A c \in Students, choice \in AnswerIds :
       (/\ storedState # NoState
        /\ storedState.phase = "active_question"
        /\ FirstAdmitted(c)
        /\ SubmitAnswer(c, storedState.currentQuestion.id, choice))
       => /\ reply' = ErrorTo(c, "ALREADY_ANSWERED")
          /\ UNCHANGED <<attempts, answersThisQuestion, storedState, handlers>>]_vars

\* C12: every admitted answer is awarded B + floor(B * 0.5 * max(0, 1 - t/L)) when it
\* is correct and the session's ruleset row enables points for speed, B when it is
\* correct and the row does not, and 0 when it is incorrect (B, L: the base points and
\* time limit of the question instance; t: the response time).
PointsPerSpec(isCorrect, B, L, t) ==
  IF ~isCorrect THEN 0
  ELSE IF Rules.pointsForSpeed THEN B + (B * Max(0, L - t)) \div (2 * L)
  ELSE B
PointsAsSpecified ==
  [][Len(answersThisQuestion') > Len(answersThisQuestion)
       => LET a == answersThisQuestion'[Len(answersThisQuestion')]
              q == storedState'.currentQuestion
          IN a.pointsAwarded
               = PointsPerSpec(a.isCorrect, q.points, q.timeLimitMs, a.responseTimeMs)]_vars

\* C13: the tug delta of an admitted correct answer points to the answering team's
\* side (left negative, right positive); its magnitude is points/10, times the streak
\* multiplier when the session's ruleset row enables the streak bonus and the team's
\* new current streak has reached the row's threshold.
DeltaPerSpec(team, points, newStreak) ==
  LET base == (points * PosScale) \div 10
      magnitude == IF Rules.streakBonus /\ newStreak >= Rules.streakThreshold
                     THEN (base * Rules.streakMultiplierX2) \div 2 ELSE base
  IN IF team = Teams[1] THEN -magnitude ELSE magnitude
TugDeltaAsSpecified ==
  [][\A h \in Slots :
       (/\ handlers[h].kind = "submit" /\ handlers[h].pc = "attempt_insert"
        /\ handlers'[h].pc = "strength_insert")
       => handlers'[h].delta
            = DeltaPerSpec(handlers[h].team, handlers[h].points,
                           storedState'.streaks[handlers[h].team].current)]_vars

\* C14: every TUG_UPDATE reports the effective delta, the position after the
\* movement minus the position before it: the delta a handler keeps for its
\* TUG_UPDATE when it moves the rope is the change of the position in that step.
MovesRope(h) ==
  /\ handlers[h].pc \notin {"strength_insert", "manual_insert"}
  /\ handlers'[h].pc \in {"strength_insert", "manual_insert"}

TugUpdateReportsEffectiveDelta ==
  [][\A h \in Slots :
       MovesRope(h) => handlers'[h].delta = storedState'.position - storedState.position]_vars

\* C15: persisting the runtime state and rehydrating a fresh engine from it yields
\* an equivalent engine: whenever the engine is idle with its state persisted, a
\* SUBMIT_ANSWER gets the same answer (error, points) from the engine in memory and
\* from a fresh engine loaded from the State Store.
\* The answer of the engine in memory to SUBMIT_ANSWER for the current question.
LiveResponse(c, choice) ==
  LET q == storedState.currentQuestion
      err == SubmitError(c, q.id, choice)
  IN [error |-> err,
      points |-> IF err = "" THEN PointsAwarded(choice = QuestionRow.correct, q, now) ELSE 0]

\* The answer of a fresh engine after loadState: storedState is the stored blob,
\* answersThisQuestion is empty and ruleset is null.
RehydratedResponse(c, choice) ==
  LET q == storage.currentQuestion
      err == IF RoleOf(c) # "student" THEN "NOT_AUTHORIZED"
             ELSE IF storage = NoState \/ q = NoQuestion THEN "INVALID_MESSAGE"
             ELSE IF storage.phase # "active_question" THEN "INVALID_MESSAGE"
             ELSE IF choice \notin AnswerIds THEN "INVALID_ANSWER"
             ELSE ""
  IN [error |-> err,
      points |-> IF err = "" /\ choice = QuestionRow.correct THEN q.points ELSE 0]

RehydrationEquivalent ==
  (storedState # NoState /\ InFlight = {} /\ storage = storedState)
    => \A c \in Students, choice \in AnswerIds :
         LiveResponse(c, choice) = RehydratedResponse(c, choice)

\* C16: a question never stays active without a deadline because the engine was
\* unloaded: once the engine is loaded (rehydrated included) with a question active,
\* the deadline callback of that question is pending or end-question has been
\* invoked for it.
Rehydrating == \E h \in Slots : handlers[h].pc = "load_teams"

DeadlineRecovered ==
  (storedState # NoState /\ storedState.phase = "active_question" /\ ~Rehydrating)
    => \/ \E t \in timers : t.q = storedState.currentQuestion.id
       \/ EndInvoked(storedState.currentQuestion.id)

\* C17: the HTTP fallback mirrors the WebSocket path: an answer admitted through
\* /answer is awarded the points SUBMIT_ANSWER would award in the same state, and
\* when its attempt is written a correct answer of a team member updates the streaks
\* and moves the rope as SUBMIT_ANSWER would.
HttpAdmits(h) ==
  /\ handlers[h].pc # "attempt_insert"
  /\ handlers'[h].kind = "http" /\ handlers'[h].pc = "attempt_insert"

HttpCompletes(h) ==
  /\ handlers[h].kind = "http" /\ handlers[h].pc = "attempt_insert"
  /\ handlers'[h] = Idle

HttpMirrorsWebSocket ==
  [][\A h \in Slots :
       /\ HttpAdmits(h)
            => handlers'[h].points
                 = PointsAwarded(handlers'[h].correct, storedState.currentQuestion, now)
       /\ (HttpCompletes(h) /\ handlers[h].correct /\ handlers[h].team # "")
            => LET r == handlers[h]
                   delta == TugDelta(storedState, r.team, r.points,
                                     storedState.streaks[r.team].current + 1)
               IN /\ storedState'.streaks = StreaksAfter(storedState, r.team)
                  /\ storedState'.position = Clamp(storedState.position + delta)]_vars

\* C18: while the phase is active_question or paused, no event broadcast to the
\* connections and no message sent to a student (ANSWER_RESULT, STATE_SNAPSHOT after
\* WELCOME, the student-role answer of GET /state) carries the correct answer id of
\* the question.
AnsweringPhases == {"active_question", "paused"}

NoCorrectAnswerToStudents ==
  [][Phase' \in AnsweringPhases
       => /\ Len(sent') > Len(sent) => sent'[Len(sent')].correctAnswerId = ""
          /\ (reply' # reply /\ reply'.to \in Students) => reply'.correctAnswerId = ""]_vars

\* C19: a kicked student gets PLAYER_KICKED when the connection is closed, and from
\* then on is not authenticated again, gets no STATE_SNAPSHOT (nor the WELCOME before
\* it), and the persisted connection status stays kicked.
KickedStudentRefused ==
  [][\A s \in Students :
       /\ (s \in clients /\ s \notin clients' /\ students'[s] = "kicked")
            => reply' = PlayerKicked(s)
       /\ (students[s] = "kicked" /\ s \notin clients)
            => /\ s \notin clients'
               /\ students'[s] = "kicked"
               /\ reply' # reply => reply' # StateSnapshot(s, storedState')]_vars

\* C20: once the phase is completed, a HELLO is answered with ERROR{SESSION_ENDED}
\* and no connection is authenticated.
CompletedRefusesHello ==
  [][Phase = "completed"
       => /\ clients' \subseteq clients
          /\ \A u \in Users : Hello(u) => reply' = ErrorTo(u, "SESSION_ENDED")]_vars

\* C21: per connection, in any rolling one-second interval at most
\* WS_RATE_LIMIT_PER_SECOND messages are dispatched to handlers.
DispatchedFrom(c, t) ==
  LET ticks == {u \in t..(t + RateWindowTicks - 1) : u <= MaxTime}
      Sum[S \in SUBSET ticks] ==
        IF S = {} THEN 0
        ELSE LET u == CHOOSE x \in S : TRUE IN dispatched[c][u] + Sum[S \ {u}]
  IN Sum[ticks]

RateLimitedPerRollingSecond ==
  \A c \in Users, t \in 0..MaxTime : DispatchedFrom(c, t) <= WS_RATE_LIMIT_PER_SECOND

\* C22: the State Store holds the new position and streaks of a correct answer by
\* the time its TUG_UPDATE is broadcast and its ANSWER_RESULT is sent.  The handler
\* emits both and then calls saveState, so the store they meet is the store before
\* that step: it holds the handler's movement or a later one.
EmitsTugUpdate(h) ==
  /\ handlers[h].kind = "submit" /\ handlers[h].pc = "strength_insert"
  /\ handlers'[h] = Idle

StoredBeforeObserved ==
  [][\A h \in Slots : EmitsTugUpdate(h) => storage.lastEventId >= handlers[h].ord]_vars

\* C23: when the write of an attempt fails, the handler answers INTERNAL_ERROR and
\* applies no effect: position and streaks are as before, and the student is not in
\* the admissions map, so that a retry is admitted.
FailedAttemptHasNoEffect ==
  [][\A h \in Slots :
       AttemptFailed(h)
         => /\ reply' = ErrorTo(handlers[h].user, "INTERNAL_ERROR")
            /\ UNCHANGED storedState
            /\ \A i \in 1..Len(answersThisQuestion') :
                  answersThisQuestion'[i].studentId # handlers[h].user]_vars

\* C24: end question is idempotent: for each question instance at most one
\* QUESTION_REVEAL is broadcast, and ended_at, once set, is not written again.
Reveals(q) ==
  {i \in 1..Len(sent) : sent[i].type = "QUESTION_REVEAL" /\ sent[i].questionInstanceId = q}

EndQuestionIdempotent ==
  /\ [](\A q \in 1..Len(question_instances) : Cardinality(Reveals(q)) <= 1)
  /\ [][\A h \in Slots :
          (handlers[h].pc = "end_update" /\ handlers'[h] # handlers[h])
            => question_instances[handlers[h].q].ended_at = -1]_vars
\* C25: a student whose HELLO completes during an active question receives a
\* STATE_SNAPSHOT whose version is at least every version of the session so far, and
\* what the connection receives names the current question instance, so that the
\* student can answer it.
ReconnectGetsQuestion ==
  [][\A h \in Slots :
       (HelloConnected(h) /\ storedState.phase = "active_question")
         => /\ reply'.type = "STATE_SNAPSHOT"
            /\ reply'.snapshotVersion >= SnapshotVersion
            /\ reply'.currentQuestion = storedState.currentQuestion.id]_vars
\* C26: every connection that holds an identity in the session presented a token of
\* the session's tenant and, for a student, of this session; a HELLO with another
\* tenant's or another session's token is answered with an ERROR and admits nobody.
OnlyOwnTokensAdmitted ==
  /\ [](\A u \in clients : TenantOf(u) = "own" /\ SessionOf(u) = "this")
  /\ [][\A u \in Foreign : Hello(u) => (reply'.type \in {"", "ERROR"} /\ clients' = clients)]_vars
\* C27: at most one GAME_END is broadcast, and exactly one once the session row is
\* completed; its winner is the left team iff the final position is below 50, the
\* right team iff above 50, nobody iff 50; its finalPosition is the engine's position
\* and the final position persisted in the sessions row.
GameEnds == {i \in 1..Len(sent) : sent[i].type = "GAME_END"}
GameEndOnceWithWinner ==
  /\ [](/\ Cardinality(GameEnds) <= 1
        /\ sessions.status = "completed" => Cardinality(GameEnds) = 1
        /\ \A i \in GameEnds :
             /\ sent[i].winner = "L" <=> sent[i].finalPosition < TUG_START_POSITION * PosScale
             /\ sent[i].winner = "R" <=> sent[i].finalPosition > TUG_START_POSITION * PosScale
             /\ sent[i].winner = "" <=> sent[i].finalPosition = TUG_START_POSITION * PosScale
             /\ sent[i].finalPosition = sessions.final_position * PosScale)
  /\ [][\A i \in GameEnds' \ GameEnds : sent'[i].finalPosition = storedState'.position]_vars
\* C28: when the attempt of an admitted correct answer by team T is recorded, T's
\* current streak grows by one, its max becomes the larger of the old max and the new
\* current, and every other team's current streak is 0 with its max unchanged; in
\* every state 0 <= current <= max for each team and at most one team has a current
\* streak above 0.
Streaks == IF storedState # NoState THEN storedState.streaks ELSE storage.streaks
RecordsCorrectAnswer(h) ==
  /\ handlers[h].pc = "attempt_insert" /\ handlers[h].correct /\ handlers[h].team # ""
  /\ Len(attempts') = Len(attempts) + 1
  /\ handlers'[h] # handlers[h]
StreaksAsSpecified ==
  /\ [](/\ \A t \in DOMAIN Streaks :
             0 <= Streaks[t].current /\ Streaks[t].current <= Streaks[t].max
        /\ Cardinality({t \in DOMAIN Streaks : Streaks[t].current > 0}) <= 1)
  /\ [][\A h \in Slots : RecordsCorrectAnswer(h)
          => \A t \in DOMAIN Streaks :
               IF t = handlers[h].team
                 THEN /\ Streaks'[t].current = Streaks[t].current + 1
                      /\ Streaks'[t].max = Max(Streaks[t].max, Streaks[t].current + 1)
                 ELSE /\ Streaks'[t].current = 0
                      /\ Streaks'[t].max = Streaks[t].max]_vars
\* C29: the step that records the attempt of an admitted incorrect answer appends one
\* attempt with is_correct false and 0 points, answers the submitter on a WebSocket
\* with ANSWER_RESULT{correct: false, pointsAwarded: 0}, leaves the position, every
\* team's streak and lastEventId as they were, persists no strength event and
\* broadcasts nothing; admitting it changed none of these either.
RecordsIncorrectAnswer(h) ==
  /\ handlers[h].pc = "attempt_insert" /\ ~handlers[h].correct
  /\ Len(attempts') = Len(attempts) + 1
  /\ handlers'[h] # handlers[h]
AdmitsIncorrectAnswer(h) ==
  /\ handlers[h] = Idle /\ handlers'[h].pc = "attempt_insert" /\ ~handlers'[h].correct
IncorrectAnswerMovesNothing ==
  [][\A h \in Slots :
       /\ RecordsIncorrectAnswer(h)
            => /\ SubSeq(attempts', 1, Len(attempts)) = attempts
               /\ LET a == attempts'[Len(attempts')]
                  IN /\ a.student_id = handlers[h].user
                     /\ a.question_instance_id = handlers[h].q
                     /\ ~a.is_correct /\ a.points_awarded = 0
               /\ handlers[h].kind = "submit"
                    => /\ reply'.to = handlers[h].user /\ reply'.type = "ANSWER_RESULT"
                       /\ ~reply'.correct /\ reply'.pointsAwarded = 0
               /\ UNCHANGED <<storedState, strength_events, sent>>
       /\ AdmitsIncorrectAnswer(h)
            => UNCHANGED <<storedState, attempts, strength_events, sent>>]_vars
\* An incorrect answer was recorded and answered.
IncorrectAnswerRecorded ==
  /\ \E i \in 1..Len(attempts) : ~attempts[i].is_correct
  /\ reply.type = "ANSWER_RESULT" /\ ~reply.correct
\* C30: a rejected message leaves phase, position, streaks, current question,
\* question index, snapshot version and the admissions set as they were: a malformed,
\* unknown or rate-limited message, a teacher command of a student connection, a
\* SUBMIT_ANSWER of a teacher connection, outside active_question, for an instance
\* that is not the current one or with an unknown option, a TEACHER_PAUSE outside
\* active_question and a TEACHER_RESUME outside paused.
RuntimeState ==
  <<storedState.phase, storedState.position, storedState.streaks,
    storedState.currentQuestion, storedState.currentQuestionIndex,
    storedState.snapshotVersion, answersThisQuestion>>
RejectedMessage ==
  \/ \E c \in Users : Malformed(c)
  \/ \E c \in Students :
       \/ NextQuestion(c) \/ Pause(c) \/ Resume(c) \/ TeacherEndGame(c)
       \/ \E d \in ManualDeltas : ManualAdjust(c, d)
       \/ \E s \in Students : TeacherKick(c, s)
  \/ \E c \in Users, inst \in 1..NumQuestions, choice \in AnswerIds \cup {"z"} :
       /\ SubmitAnswer(c, inst, choice)
       /\ \/ c \in Teachers
          \/ storedState.phase # "active_question"
          \/ inst # storedState.currentQuestion.id
          \/ choice \notin AnswerIds
  \/ \E c \in Users : Pause(c) /\ storedState.phase # "active_question"
  \/ \E c \in Users : Resume(c) /\ storedState.phase # "paused"
RejectedMessageChangesNothing == [][RejectedMessage => UNCHANGED RuntimeState]_vars
\* An answer for an instance that is not the current one was refused after an answer
\* had been admitted.
StaleAnswerRefused ==
  /\ reply.type = "ERROR" /\ reply.code = "QUESTION_EXPIRED"
  /\ Len(answersThisQuestion) > 0
\* C31: every rejected command is answered with an ERROR event on the connection
\* that sent it: a teacher command of a student connection, a TEACHER_PAUSE outside
\* active_question and a TEACHER_RESUME outside paused.
RejectedCommand(c) ==
  \/ /\ c \in Students
     /\ \/ NextQuestion(c) \/ Pause(c) \/ Resume(c) \/ TeacherEndGame(c)
        \/ \E d \in ManualDeltas : ManualAdjust(c, d)
        \/ \E s \in Students : TeacherKick(c, s)
  \/ Pause(c) /\ storedState.phase # "active_question"
  \/ Resume(c) /\ storedState.phase # "paused"
RejectedCommandAnswered ==
  [][\A c \in Users : RejectedCommand(c) => (reply'.type = "ERROR" /\ reply'.to = c)]_vars
\* C32: when the read of the next question or the write of its instance fails
\* during teacher_next_question, the phase, currentQuestionIndex, currentQuestion and
\* snapshot version stay as they were, no QUESTION event is broadcast and no deadline
\* timer is scheduled; a question is current, announced or timed only when its
\* instance row was written.
Questions == {i \in 1..Len(sent) : sent[i].type = "QUESTION"}
StartAborts(h) == QuestionSelectFailed(h) \/ InstanceInsertFailed(h)
OpenInstances == {q \in 1..Len(question_instances) : question_instances[q].ended_at = -1}
OneOpenQuestion ==
  /\ [](/\ Cardinality(OpenInstances) <= 1
        /\ \A q \in OpenInstances : storedState.currentQuestion.id = q
        /\ storedState.currentQuestion # NoQuestion
             => storedState.currentQuestion.index = storedState.currentQuestionIndex
        /\ -1 <= storedState.currentQuestionIndex
        /\ storedState.currentQuestionIndex < storedState.numQuestionIds)
  /\ [][\A h \in Slots : InstanceInserted(h)
          => /\ OpenInstances = {}
             /\ storedState'.currentQuestionIndex = storedState.currentQuestionIndex + 1]_vars
\* C34: whenever no submit handler is in flight, the attempts rows of the current
\* question instance are as many as the answers in the in-memory admissions set, and
\* the totalAttempts and correctAttempts of every QUESTION_REVEAL are the numbers of
\* attempts rows and of correct attempts rows of its instance.
AttemptsOf(q) == {i \in 1..Len(attempts) : attempts[i].question_instance_id = q}
CorrectAttemptsOf(q) == {i \in AttemptsOf(q) : attempts[i].is_correct}
SubmitInFlight == \E h \in Slots : handlers[h].kind \in {"submit", "http"}
AttemptsMatchAdmissions ==
  ~SubmitInFlight =>
    /\ \A q \in OpenInstances :
         Cardinality(AttemptsOf(q)) =
           IF storedState.currentQuestion.id = q THEN Len(answersThisQuestion) ELSE 0
    /\ \A i \in 1..Len(sent) :
         sent[i].type = "QUESTION_REVEAL"
           => /\ sent[i].totalAttempts = Cardinality(AttemptsOf(sent[i].questionInstanceId))
              /\ sent[i].correctAttempts =
                   Cardinality(CorrectAttemptsOf(sent[i].questionInstanceId))
\* C35: at most one deadline timer is pending and it belongs to the current question
\* instance; a timer that fires ends the question it was scheduled for, and not
\* before time_limit_ms have passed since that question's started_at.
TimerEnds(t) == TimerFire(t) /\ handlers' # handlers
TimerEndsOwnQuestion ==
  /\ [](/\ Cardinality(timers) <= 1
        /\ \A t \in timers : t.q = storedState.currentQuestion.id)
  /\ [][\A t \in timers : TimerEnds(t)
          => /\ storedState.currentQuestion.id = t.q
             /\ now >= storedState.currentQuestion.startedAt
                         + storedState.currentQuestion.timeLimitMs]_vars
\* C36: the steps of a correct answer that move the rope, write its strength event
\* and broadcast its TUG_UPDATE are taken while the phase is active_question and the
\* current question instance is the one the answer was admitted for.
MovesRopeForAnswer(h) ==
  \/ AttemptInserted(h) /\ storedState'.position # storedState.position
  \/ StrengthInserted(h)
RopeMovesOnlyInActiveQuestion ==
  [][\A h \in Slots : MovesRopeForAnswer(h)
       => /\ storedState.phase = "active_question"
          /\ storedState.currentQuestion.id = handlers[h].q]_vars
\* C37: whenever no handler is in flight, the position carried by the most recently
\* broadcast TUG_UPDATE is the engine's position.
TugUpdates == {i \in 1..Len(sent) : sent[i].type = "TUG_UPDATE"}
LastTugUpdate == sent[CHOOSE i \in TugUpdates : \A j \in TugUpdates : j <= i]
ClientsConverge ==
  (InFlight = {} /\ TugUpdates # {} /\ storedState # NoState)
    => LastTugUpdate.position = storedState.position
\* C38: once the phase is completed the engine's position does not change any more,
\* and it is the finalPosition of GAME_END and the final_position of the session row.
ResultFrozen ==
  /\ [][storedState.phase = "completed"
          => storedState'.position = storedState.position]_vars
  /\ [](storedState.phase = "completed"
          => /\ \A i \in GameEnds : sent[i].finalPosition = storedState.position
             /\ sessions.final_position * PosScale = storedState.position)
\* C39: a connection that has not completed a HELLO is not among the receivers of
\* broadcasts, and a SUBMIT_ANSWER it sends is not admitted: it starts no handler
\* and changes neither the runtime state, the admissions set nor the attempts.
UnauthenticatedHasNoEffect ==
  /\ [](Anonymous \notin clients)
  /\ [][\A inst \in 1..NumQuestions, choice \in AnswerIds :
          SubmitAnswer(Anonymous, inst, choice)
            => UNCHANGED <<storedState, storage, answersThisQuestion, attempts,
                           strength_events, handlers, sent>>]_vars
====
